---- MODULE Spec2Model ----
(***************************************************************************)
(* State-machine model of the gs_usb CAN adapter firmware:                 *)
(*   - GsUsbPort  (src/src/usbd_gs/gs_port.rs): bulk packetisation state   *)
(*     machines and the flow-control stall signalling,                     *)
(*   - GsUsbClass (src/src/usbd_gs/gs_class.rs): the control-OUT decoder   *)
(*     and the single-slot control-event mailbox,                          *)
(*   - the bridge loop of main (src/src/main.rs): the two ring buffers and *)
(*     the transceiver hand-off.                                           *)
(*                                                                         *)
(* Representation.  TLC integers are 32-bit signed, so a u32 field of a    *)
(* HostFrame (echo_id, can_id) is kept as its four little-endian bytes;    *)
(* u8 fields and buffer bytes are integers 0..255.                         *)
(*                                                                         *)
(* GsUsbPort::read_frame and GsUsbPort::write_frame are `todo!()` stubs in *)
(* the source; their bodies here follow section 4.3 of the specification   *)
(* (which is also what the commented-out bodies in gs_port.rs say).        *)
(***************************************************************************)
EXTENDS Integers, Sequences, FiniteSets, TLC

VARIABLES
    max_packet_size,  \* GsUsbClass.write_ep.max_packet_size()
    read_buffer,      \* GsUsbPort.read_buffer : [u8; frame_size()]
    read_state,       \* GsUsbPort.read_state
    write_buffer,     \* GsUsbPort.write_buffer : [u8; frame_size()]
    write_state,      \* GsUsbPort.write_state
    stalled,          \* stall condition of the device-to-host bulk endpoint
    control_event,    \* GsUsbClass.control_event : Option<ChannelEvent>
    inbox,            \* main: host-bound ring buffer
    outbox,           \* main: bus-bound ring buffer
    pc,               \* main: position in the loop body
    host_stream,      \* environment: the frames the host sends, one after the other, cyclically
    host_next,        \* environment: which frame of host_stream the host sends next
    last,             \* observation: the last operation, its inputs and its result
    tx_log,           \* observation: packets handed to the IN endpoint for the current frame
    tx_clean,         \* observation: every endpoint write for the current frame succeeded in full
    rx_pkts,          \* observation: the packets read into the frame being reassembled
    mailbox_hist      \* observation: events decoded since the last read_control_event

vars == <<max_packet_size, read_buffer, read_state, write_buffer, write_state,
          stalled, control_event, inbox, outbox, pc, host_stream, host_next,
          last, tx_log, tx_clean, rx_pkts, mailbox_hist>>

portVars == <<max_packet_size, read_buffer, read_state, write_buffer, write_state,
              stalled>>
ghostVars == <<tx_log, tx_clean, rx_pkts>>

classVars == <<control_event, mailbox_hist>>

loopVars == <<inbox, outbox, pc, host_stream, host_next>>

----------------------------------------------------------------------------
(* Values *)

None == [tag |-> "None"]

Some(v) == [tag |-> "Some", val |-> v]

Ok(v) == [tag |-> "Ok", val |-> v]

Err(e) == [tag |-> "Err", err |-> e]

WouldBlock == Err("WouldBlock")

IsWouldBlock(res) == res.tag = "Err" /\ res.err = "WouldBlock"

\* what an operation was given, what it returned, and which endpoint calls it made
Obs(op, arg, ret) ==
    [op |-> op, arg |-> arg, ret |-> ret,
     read_called |-> FALSE, write_called |-> FALSE]

Zeros(n) == [i \in 1..n |-> 0]

\* size_of::<HostFrame>(): 4 + 4 + 1 + 1 + 1 + 1 + 64
frame_size == 76

\* length of HostFrame.bytes
PayloadLen == 64

Empty == [tag |-> "Empty", index |-> 0]

WaitingForPacket(n) == [tag |-> "WaitingForPacket", index |-> n]

Full == [tag |-> "Full", index |-> 0]

Ready == [tag |-> "Ready", remainder |-> 0]

Writing(r) == [tag |-> "Writing", remainder |-> r]

\* ReadState::index
index(rs) ==
    CASE rs.tag = "Empty" -> 0
      [] rs.tag = "WaitingForPacket" -> rs.index
      [] rs.tag = "Full" -> frame_size

Min(a, b) == IF a < b THEN a ELSE b

----------------------------------------------------------------------------
(* HostFrame and its wire layout *)

HostFrame(echo_id, can_id, can_dlc, channel, flags, bytes) ==
    [echo_id |-> echo_id, can_id |-> can_id, can_dlc |-> can_dlc,
     channel |-> channel, flags |-> flags, reserved |-> 0, bytes |-> bytes]

\* scroll Pread of HostFrame: the fields in declaration order, little-endian
unpack(b) ==
    [echo_id  |-> SubSeq(b, 1, 4),
     can_id   |-> SubSeq(b, 5, 8),
     can_dlc  |-> b[9],
     channel  |-> b[10],
     flags    |-> b[11],
     reserved |-> b[12],
     bytes    |-> SubSeq(b, 13, 12 + PayloadLen)]

\* the serialisation write_frame needs (spec section 6, bulk wire frame)
pack_to_slice(f) ==
    f.echo_id \o f.can_id \o <<f.can_dlc, f.channel, f.flags, f.reserved>> \o f.bytes

----------------------------------------------------------------------------
(* Bulk endpoints (usb-device), as GsUsbClass uses them *)

\* what the bus may answer to one endpoint read: no packet, a failure, or a packet
RxWouldBlock == [tag |-> "WouldBlock", data |-> <<>>]

RxError == [tag |-> "Error", data |-> <<>>]

RxPacket(d) == [tag |-> "Packet", data |-> d]

\* GsUsbClass::read_packet: read_ep.read(data) into a buffer of buf_len bytes
read_packet(buf_len, rx) ==
    CASE rx.tag = "WouldBlock" -> WouldBlock
      [] rx.tag = "Error" -> Err("InvalidState")
      [] rx.tag = "Packet" ->
            IF Len(rx.data) > buf_len THEN Err("BufferOverflow") ELSE Ok(Len(rx.data))

\* what the bus may answer to one endpoint write
TxOutcomes == {"Full", "Short", "WouldBlock", "Error"}

\* the answers that can matter to a poll: none is consulted unless a write is in flight
TxInputs(ws) == IF ws.tag = "Writing" THEN TxOutcomes ELSE {"Full"}

\* GsUsbClass::write_packet: write_ep.write(data)
write_packet(data, tx) ==
    CASE tx = "Full" -> Ok(Len(data))
      [] tx = "Short" -> Ok(IF Len(data) = 0 THEN 0 ELSE Len(data) - 1)
      [] tx = "WouldBlock" -> WouldBlock
      [] tx = "Error" -> Err("InvalidState")

\* the bytes that reached the endpoint, as a one-packet log (empty log: none did)
Emitted(data, res) ==
    IF res.tag = "Ok" THEN <<SubSeq(data, 1, res.val)>> ELSE <<>>

----------------------------------------------------------------------------
(* GsUsbPort::poll, read half (gs_port.rs 79-92) *)

\* mutant of ShouldRead: the read half runs in every state
ShouldRead_Always(rs) == TRUE

\* the guard of the read half
ShouldRead(rs) == rs /= Full
\* mutant of ReadStateAfter: a failed read keeps the partial frame
ReadStateAfter_KeepOnError(rs, idx, res, packet_size) ==
    CASE res.tag = "Ok" /\ res.val = packet_size -> WaitingForPacket(idx + res.val)
      [] res.tag = "Ok" /\ res.val /= packet_size -> Full
      [] OTHER -> rs

\* the match on read_bytes
ReadStateAfter(rs, idx, res, packet_size) ==
    CASE res.tag = "Ok" /\ res.val = packet_size -> WaitingForPacket(idx + res.val)
      [] res.tag = "Ok" /\ res.val /= packet_size -> Full
      [] IsWouldBlock(res) -> rs
      [] OTHER -> Empty

\* mutant of StorePacket: every packet lands at the start of the buffer
StorePacket_AtStart(buf, idx, res, rx) ==
    IF res.tag = "Ok"
    THEN [i \in 1..frame_size |-> IF i <= res.val THEN rx.data[i] ELSE buf[i]]
    ELSE buf

\* read_ep.read(&mut self.read_buffer[index..]): a packet lands at the offset
StorePacket(buf, idx, res, rx) ==
    IF res.tag = "Ok"
    THEN [i \in 1..frame_size |->
            IF i > idx /\ i <= idx + res.val THEN rx.data[i - idx] ELSE buf[i]]
    ELSE buf

PollRead(rs, buf, rx, packet_size) ==
    IF ShouldRead(rs)
    THEN LET idx == index(rs)
             res == read_packet(frame_size - idx, rx)
         IN [state  |-> ReadStateAfter(rs, idx, res, packet_size),
             buffer |-> StorePacket(buf, idx, res, rx),
             called |-> TRUE,
             res    |-> res]
    ELSE [state |-> rs, buffer |-> buf, called |-> FALSE, res |-> None]

----------------------------------------------------------------------------
(* GsUsbPort::poll, write half (gs_port.rs 94-122) *)
\* mutant of WriteSlice: every packet is cut from the start of the buffer
WriteSlice_FromStart(buf, remainder, packet_size) ==
    SubSeq(buf, 1, Min(remainder, packet_size))

\* &self.write_buffer[from_index..to_index]
WriteSlice(buf, remainder, packet_size) ==
    LET from_index == frame_size - remainder
        to_index == Min(frame_size, from_index + packet_size)
    IN SubSeq(buf, from_index + 1, to_index)

\* mutant of WriteStateAfter: the transfer ends as soon as nothing remains
WriteStateAfter_NoZlp(remainder, res, packet_size) ==
    CASE res.tag = "Ok" /\ res.val = packet_size /\ remainder > res.val ->
            Writing(remainder - res.val)
      [] res.tag = "Ok" -> Ready
      [] IsWouldBlock(res) -> Writing(remainder)
      [] OTHER -> Ready

\* mutant of WriteStateAfter: any completed write counts, whatever its length
WriteStateAfter_AnyLength(remainder, res, packet_size) ==
    CASE res.tag = "Ok" -> Writing(remainder - res.val)
      [] IsWouldBlock(res) -> Writing(remainder)
      [] OTHER -> Ready

\* the match on written_bytes
WriteStateAfter(remainder, res, packet_size) ==
    CASE res.tag = "Ok" /\ res.val = packet_size -> Writing(remainder - res.val)
      [] res.tag = "Ok" /\ res.val /= packet_size -> Ready
      [] IsWouldBlock(res) -> Writing(remainder)
      [] OTHER -> Ready

PollWrite(ws, buf, tx, packet_size) ==
    IF ws.tag = "Writing"
    THEN IF ws.remainder = 0
         THEN LET res == write_packet(<<>>, tx)
              IN [state |-> Ready, sent |-> Emitted(<<>>, res), called |-> TRUE, res |-> res]
         ELSE LET data == WriteSlice(buf, ws.remainder, packet_size)
                  res == write_packet(data, tx)
              IN [state  |-> WriteStateAfter(ws.remainder, res, packet_size),
                  sent   |-> Emitted(data, res),
                  called |-> TRUE,
                  res    |-> res]
    ELSE [state |-> ws, sent |-> <<>>, called |-> FALSE, res |-> None]

\* gs_port.rs 124-132: stall when the write side became Ready, unstall when it left it
StallAfter(st, was_writing_ready, is_writing_ready) ==
    IF was_writing_ready /= is_writing_ready
    THEN (IF is_writing_ready THEN TRUE ELSE FALSE)
    ELSE st

\* observation of one poll: the packet answered to the read, the result of the write
PollObs(rx, tx, r, w) ==
    [Obs("poll", rx.tag, w.res)
        EXCEPT !.read_called = r.called, !.write_called = w.called]

\* the two halves of one GsUsbPort::poll, each computed once
PollStep(rx, tx) ==
    [r |-> PollRead(read_state, read_buffer, rx, max_packet_size),
     w |-> PollWrite(write_state, write_buffer, tx, max_packet_size)]

\* GsUsbPort::poll as a whole: p is PollStep of the endpoints' answers
PollPort(p) ==
    /\ read_state' = p.r.state
    /\ read_buffer' = p.r.buffer
    /\ write_state' = p.w.state
    /\ stalled' = StallAfter(stalled, write_state = Ready, p.w.state = Ready)
    /\ UNCHANGED <<max_packet_size, write_buffer>>

\* the packets a poll read and wrote, recorded for the frame in progress
PollSeen(rx, tx, p) ==
    /\ rx_pkts' = IF ~p.r.called \/ IsWouldBlock(p.r.res) THEN rx_pkts
                  ELSE IF p.r.res.tag = "Ok"
                       THEN Append(IF read_state = Empty THEN <<>> ELSE rx_pkts, rx.data)
                       ELSE <<>>
    /\ tx_log' = tx_log \o p.w.sent
    /\ tx_clean' = (tx_clean /\ (p.w.called => tx = "Full"))

----------------------------------------------------------------------------
(* GsUsbPort: reset, write_frame, read_frame *)

\* GsUsbPort::reset: self.underlying.stall()
ResetPort ==
    /\ stalled' = TRUE
    /\ UNCHANGED <<max_packet_size, read_buffer, read_state, write_buffer, write_state>>
\* GsUsbPort::write_frame: result and the write side after it
write_frame(ws, buf, f) ==
    IF ws = Ready
    THEN [ret |-> Ok(<<>>), state |-> Writing(frame_size), buffer |-> pack_to_slice(f)]
    ELSE [ret |-> WouldBlock, state |-> ws, buffer |-> buf]

WriteFramePort(f) ==
    LET w == write_frame(write_state, write_buffer, f)
    IN /\ write_state' = w.state
       /\ write_buffer' = w.buffer
       /\ UNCHANGED <<max_packet_size, read_buffer, read_state, stalled>>

\* GsUsbPort::read_frame: result and the read state after it
read_frame(rs, buf) ==
    IF rs = Full
    THEN [ret |-> Ok(unpack(buf)), state |-> Empty]
    ELSE [ret |-> WouldBlock, state |-> rs]

ReadFramePort ==
    LET r == read_frame(read_state, read_buffer)
    IN /\ read_state' = r.state
       /\ UNCHANGED <<max_packet_size, read_buffer, write_buffer, write_state, stalled>>

----------------------------------------------------------------------------
(* Inputs *)

\* negotiated packet sizes explored: one that divides frame_size and the one main uses
PacketSizes == {38, 64}

\* length of a short packet a host may send
ShortLen == 3

U32(b0, b1, b2, b3) == <<b0, b1, b2, b3>>

Payload(d) == d \o Zeros(PayloadLen - Len(d))

\* standard id 0x123, data, dlc 2, echo marker 1, flags Fd
FrameA == HostFrame(U32(1, 0, 0, 0), U32(35, 1, 0, 0), 2, 0, 2, Payload(<<170, 187>>))

\* extended id, declared length 9, echo marker 2
FrameB == HostFrame(U32(2, 0, 0, 0), U32(120, 86, 52, 146), 9, 0, 0, Payload(<<1, 2, 3, 4, 5, 6, 7, 8, 9>>))

HostFrames == {FrameA, FrameB}

\* data frame with declared length 65
FrameD == HostFrame(U32(3, 0, 0, 0), U32(35, 1, 0, 0), 65, 0, 0, Payload(<<1>>))

\* the host's byte stream for f: back-to-back copies of its wire bytes
Stream == [f \in HostFrames \cup {FrameD} |-> pack_to_slice(f) \o pack_to_slice(f)]

\* n bytes of that stream from offset idx
Chunk(f, idx, n) == SubSeq(Stream[f], idx + 1, idx + n)

RxLens(idx, packet_size) ==
    {n \in {0, ShortLen, frame_size - idx, packet_size} : n >= 0 /\ n <= packet_size}

RxInputs(frames, idx, packet_size) ==
    {RxWouldBlock, RxError} \cup
    {RxPacket(Chunk(f, idx, n)) : f \in frames, n \in RxLens(idx, packet_size)}

----------------------------------------------------------------------------
(* The bulk port driven by an arbitrary caller *)

InitPort ==
    /\ read_buffer = Zeros(frame_size)
    /\ read_state = Empty
    /\ write_buffer = Zeros(frame_size)
    /\ write_state = Ready
    /\ stalled = FALSE
    /\ tx_log = <<>>
    /\ tx_clean = FALSE
    /\ rx_pkts = <<>>

InitClass ==
    /\ control_event = None
    /\ mailbox_hist = <<>>

InitLoop ==
    /\ inbox = <<>>
    /\ outbox = <<>>
    /\ pc = "poll"
    /\ host_stream = <<>>
    /\ host_next = 1

Init ==
    /\ max_packet_size \in PacketSizes
    /\ InitPort
    /\ InitClass
    /\ InitLoop
    /\ last = Obs("new", None, None)

Reset ==
    /\ ResetPort
    /\ last' = Obs("reset", None, None)
    /\ UNCHANGED <<ghostVars, classVars, loopVars>>

WriteFrame ==
    \E f \in HostFrames :
        /\ WriteFramePort(f)
        /\ last' = Obs("write_frame", f, write_frame(write_state, write_buffer, f).ret)
        /\ tx_log' = IF write_state = Ready THEN <<>> ELSE tx_log
        /\ tx_clean' = IF write_state = Ready THEN TRUE ELSE tx_clean
        /\ UNCHANGED <<rx_pkts, classVars, loopVars>>

ReadFrame ==
    /\ ReadFramePort
    /\ last' = Obs("read_frame", None, read_frame(read_state, read_buffer).ret)
    /\ UNCHANGED <<ghostVars, classVars, loopVars>>

\* one GsUsbPort::poll whose endpoint write is answered by one of answers
PollVia(answers) ==
    \E rx \in RxInputs(HostFrames, index(read_state), max_packet_size),
       tx \in answers :
        \E p \in {PollStep(rx, tx)} :
            /\ PollPort(p)
            /\ PollSeen(rx, tx, p)
            /\ last' = PollObs(rx, tx, p.r, p.w)
            /\ UNCHANGED <<classVars, loopVars>>

Poll == PollVia(TxInputs(write_state))

Next == Reset \/ WriteFrame \/ ReadFrame \/ Poll

Spec == Init /\ [][Next]_vars

\* a poll whose endpoint write is not answered would-block
PollAnswered == PollVia(TxInputs(write_state) \ {"WouldBlock"})

\* the port polled again and again, its endpoint write not would-block forever
LiveSpec == Spec /\ WF_vars(PollAnswered)

----------------------------------------------------------------------------
(* GsUsbClass: control-OUT decoding and the control-event mailbox *)

\* number of channels: the const generic C of GsUsbClass, the length of main's array
C == 1

\* comm_if: the interface number the allocator hands out first
comm_if == 0

\* GsUsbRequest, by discriminant
GsUsbRequest ==
    <<"HostFormat", "BitTiming", "Mode", "Berr", "BtConst", "DeviceConfig", "Timestamp",
      "Identify", "GetUserId", "SetUserId", "DataBitTiming", "BtConstExt">>

\* GsUsbRequest::BtConstExt as u8
BtConstExt == 11

\* GsUsbRequest::from_raw
from_raw(raw) == IF raw > BtConstExt THEN None ELSE Some(GsUsbRequest[raw + 1])

\* a little-endian u32 at byte offset off (inputs keep it below 2^31)
U32LE(d, off) ==
    d[off + 1] + 256 * d[off + 2] + 65536 * d[off + 3] + 16777216 * d[off + 4]

\* scroll pread_with(0, LE) of a struct of n u32 fields: fails on a short payload
pread_with(d, n) ==
    IF Len(d) < 4 * n THEN Err("TooBig") ELSE Ok([i \in 1..n |-> U32LE(d, 4 * (i - 1))])

\* struct BitTiming
pread_BitTiming(d) ==
    LET r == pread_with(d, 5)
    IN IF r.tag = "Ok"
       THEN Ok([prop_seg |-> r.val[1], phase_seg1 |-> r.val[2], phase_seg2 |-> r.val[3],
                sjw |-> r.val[4], brp |-> r.val[5]])
       ELSE r

\* struct ChannelMode
pread_ChannelMode(d) ==
    LET r == pread_with(d, 2)
    IN IF r.tag = "Ok" THEN Ok([mode |-> r.val[1], flags |-> r.val[2]]) ELSE r

\* struct ChannelIdentify
pread_ChannelIdentify(d) ==
    LET r == pread_with(d, 1)
    IN IF r.tag = "Ok" THEN Ok(r.val[1]) ELSE r

\* enum ChannelEvent
ChannelEvent(kind, payload, channel) ==
    [kind |-> kind, payload |-> payload, channel |-> channel]

\* Result::map
MapOk(r, kind, channel) ==
    IF r.tag = "Ok" THEN Ok(ChannelEvent(kind, r.val, channel)) ELSE r

\* mutant of ChannelInRange: the bound is off by one
ChannelInRange_Inclusive(channel) == channel <= C

\* the match guards `if channel < C`
ChannelInRange(channel) == channel < C

\* the match on gs_request (gs_class.rs 121-146)
decode_control_out(gs_request, channel, data) ==
    CASE gs_request = Some("BitTiming") /\ ChannelInRange(channel) ->
            MapOk(pread_BitTiming(data), "BitTiming", channel)
      [] gs_request = Some("DataBitTiming") /\ ChannelInRange(channel) ->
            MapOk(pread_BitTiming(data), "DataBitTiming", channel)
      [] gs_request = Some("Mode") /\ ChannelInRange(channel) ->
            MapOk(pread_ChannelMode(data), "ChannelMode", channel)
      [] gs_request = Some("Identify") /\ ChannelInRange(channel) ->
            MapOk(pread_ChannelIdentify(data), "Identify", channel)
      [] OTHER -> Err("BadInput")

\* Result::ok
ok(r) == IF r.tag = "Ok" THEN Some(r.val) ELSE None

\* mutant of StoreEvent: an unread event is kept (first write wins)
StoreEvent_KeepUnread(slot, decoded) == IF slot /= None THEN slot ELSE ok(decoded)

\* self.control_event = control_event.ok()
StoreEvent(slot, decoded) == ok(decoded)

\* the request filter at the top of control_out
Addressed(req) ==
    ~(\/ req.request_type /= "Vendor"
      \/ req.recipient /= "Interface"
      \/ req.index /= comm_if)

\* GsUsbClass::control_out: the slot after it, what was decoded, the transfer's fate
control_out(slot, req) ==
    IF ~Addressed(req)
    THEN [slot |-> slot, decoded |-> None, xfer |-> "ignored"]
    ELSE LET gs_request == from_raw(req.request)
             channel == req.value
         IN IF gs_request = Some("HostFormat")
            THEN [slot |-> slot, decoded |-> None, xfer |-> "accept"]
            ELSE LET ev == decode_control_out(gs_request, channel, req.data)
                     new == StoreEvent(slot, ev)
                 IN [slot |-> new, decoded |-> ok(ev),
                     xfer |-> IF new /= None THEN "accept" ELSE "reject"]

\* mutant of read_control_event: the slot is read but not cleared
read_control_event_Peek(slot) == [ret |-> slot, slot |-> slot]

\* GsUsbClass::read_control_event: swap the slot with None
read_control_event(slot) == [ret |-> slot, slot |-> None]

\* how many decoded events the observation keeps
MaxHist == 2

\* the most recent MaxHist events decoded since the last read
Remember(hist, decoded) ==
    IF decoded = None THEN hist
    ELSE LET h == Append(hist, decoded.val)
         IN IF Len(h) > MaxHist THEN Tail(h) ELSE h

ControlOutClass(req) ==
    LET r == control_out(control_event, req)
    IN /\ control_event' = r.slot
       /\ mailbox_hist' = Remember(mailbox_hist, r.decoded)
       /\ last' = Obs("control_out", req, r.xfer)

ReadControlEventClass ==
    LET r == read_control_event(control_event)
    IN /\ control_event' = r.slot
       /\ mailbox_hist' = <<>>
       /\ last' = Obs("read_control_event", mailbox_hist, r.ret)

(* Inputs *)

LE32(n) == <<n % 256, (n \div 256) % 256, (n \div 65536) % 256, (n \div 16777216) % 256>>

\* BitTiming{prop_seg 3, phase_seg1 3, phase_seg2 2, sjw 1, brp 8}
TimingPayload == LE32(3) \o LE32(3) \o LE32(2) \o LE32(1) \o LE32(8)

\* mode on, flags Loopback
ModePayload == LE32(1) \o LE32(2)

IdentifyPayload == LE32(1)

ControlPayloads ==
    {<<>>, IdentifyPayload, ModePayload, TimingPayload,
     SubSeq(TimingPayload, 1, Len(TimingPayload) - 1)}

\* raw request codes: every GsUsbRequest and the first code past them
RequestCodes == 0..(BtConstExt + 1)

Request(request_type, recipient, idx, request, value, data) ==
    [request_type |-> request_type, recipient |-> recipient, index |-> idx,
     request |-> request, value |-> value, data |-> data]

ControlRequests ==
    {Request("Vendor", "Interface", comm_if, r, ch, d) :
        r \in RequestCodes, ch \in 0..C, d \in ControlPayloads}
    \cup {Request("Class", "Interface", comm_if, 1, 0, TimingPayload),
          Request("Vendor", "Device", comm_if, 1, 0, TimingPayload),
          Request("Vendor", "Interface", comm_if + 1, 1, 0, TimingPayload)}

(* The control interface driven by an arbitrary host and caller *)

ControlOut ==
    \E req \in ControlRequests :
        /\ ControlOutClass(req)
        /\ UNCHANGED <<portVars, ghostVars, loopVars>>

ReadControlEvent ==
    /\ ReadControlEventClass
    /\ UNCHANGED <<portVars, ghostVars, loopVars>>

InitControl ==
    /\ max_packet_size = 64
    /\ InitPort
    /\ InitClass
    /\ InitLoop
    /\ last = Obs("new", None, None)

NextControl == ControlOut \/ ReadControlEvent

ControlSpec == InitControl /\ [][NextControl]_vars

----------------------------------------------------------------------------
(* Wire frame translation (frame.rs, frame_ext.rs) *)

Panic == [tag |-> "Panic"]

\* u32::MAX, the echo marker of a frame that is not an echo
U32Max == U32(255, 255, 255, 255)

\* HostCanIdBits::RemoteFrame (1 << 30), as a weight within the top byte of can_id
RemoteFrame == 64

\* HostCanIdBits::ExtendedId (1 << 31), as a weight within the top byte of can_id
ExtendedId == 128

\* HostFrameFlagsBits::Overflow
Overflow == 1

\* ChannelFlagsBit::ListenOnly
ListenOnly == 1

\* ChannelFlagsBit::Loopback
Loopback == 2

\* v & bit != 0, for a single-bit mask
BitSet(v, bit) == (v \div bit) % 2 = 1

\* HostCanId::is_set
is_set(can_id, bit) == BitSet(can_id[4], bit)

\* HostCanId::id: self.0 & 0x1fffffff
id(can_id) == can_id[1] + 256 * can_id[2] + 65536 * can_id[3] + 16777216 * (can_id[4] % 32)

\* HostCanId::new: (raw_id & 0x1fffffff) with the flag bits or-ed in
HostCanId_new(raw_id, bits) ==
    LET b == LE32(raw_id % 536870912)
    IN <<b[1], b[2], b[3],
         b[4] + (IF RemoteFrame \in bits THEN RemoteFrame ELSE 0)
              + (IF ExtendedId \in bits THEN ExtendedId ELSE 0)>>

\* HostFrame::new
HostFrame_new(echo_id, can_id, can_dlc, channel, flags, bytes) ==
    HostFrame(IF echo_id = None THEN U32Max ELSE echo_id.val,
              can_id, can_dlc, channel, flags, bytes)

\* mutant of set: the flags are replaced by the bit
set_Replace(flags, bit) == bit

\* HostFrameFlags::set: self.0 |= bit
set(flags, bit) == IF BitSet(flags, bit) THEN flags ELSE flags + bit

\* mcp2515 CanFrame
CanFrame(can_id, rtr, dlc, data) == [id |-> can_id, rtr |-> rtr, dlc |-> dlc, data |-> data]

\* CanFrame::new: none for more than 8 data bytes
CanFrame_new(can_id, data) ==
    IF Len(data) > 8 THEN None ELSE Some(CanFrame(can_id, FALSE, Len(data), data))

\* CanFrame::new_remote: none for a length above 8
CanFrame_new_remote(can_id, dlc) ==
    IF dlc > 8 THEN None ELSE Some(CanFrame(can_id, TRUE, dlc, Zeros(dlc)))

\* FromHostFrame for CanFrame; &frame.bytes[..can_dlc] panics past the 64 payload bytes
from_host_frame(f) ==
    LET can_id == IF is_set(f.can_id, ExtendedId)
                  THEN [kind |-> "Extended", raw |-> id(f.can_id)]
                  ELSE [kind |-> "Standard", raw |-> id(f.can_id) % 65536]
    IN IF is_set(f.can_id, RemoteFrame)
       THEN CanFrame_new_remote(can_id, f.can_dlc)
       ELSE IF f.can_dlc > PayloadLen THEN Panic
            ELSE CanFrame_new(can_id, SubSeq(f.bytes, 1, f.can_dlc))

\* ToHostFrame for CanFrame; copy_from_slice panics unless the lengths are equal
to_host_frame(m, channel) ==
    LET bits == (IF m.rtr THEN {RemoteFrame} ELSE {})
                \cup (IF m.id.kind = "Extended" THEN {ExtendedId} ELSE {})
        can_id == HostCanId_new(m.id.raw, bits)
    IN IF Len(m.data) /= PayloadLen THEN Panic
       ELSE Some(HostFrame_new(None, can_id, m.dlc, channel, 0, m.data))

----------------------------------------------------------------------------
(* Applying a ChannelEvent (main.rs 107-139, 179-196; channel_event.rs) *)

\* channels[0].fclk_can
fclk_can == 8000000

\* BitTiming::bit_rate: a zero prescaler divides by zero
bit_rate(timing, fclk) ==
    IF timing.brp = 0 THEN Panic
    ELSE Some((fclk \div timing.brp)
              \div (1 + timing.prop_seg + timing.phase_seg1 + timing.phase_seg2))

\* can_speed_from_bit_rate: the match on bit_rate / 1000
can_speed_from_bit_rate(rate) ==
    LET k == rate \div 1000
    IN CASE k <= 5000 -> "Kbps5"
         [] k <= 10000 -> "Kbps10"
         [] k <= 20000 -> "Kbps20"
         [] k <= 31250 -> "Kbps31_25"
         [] k <= 33300 -> "Kbps33_3"
         [] k <= 40000 -> "Kbps40"
         [] k <= 50000 -> "Kbps50"
         [] k <= 80000 -> "Kbps80"
         [] k <= 100000 -> "Kbps100"
         [] k <= 125000 -> "Kbps125"
         [] k <= 200000 -> "Kbps200"
         [] k <= 250000 -> "Kbps250"
         [] k <= 500000 -> "Kbps500"
         [] OTHER -> "Kbps1000"

\* the three ifs that pick the OpMode, in order
mcp_mode(mode) ==
    LET m1 == IF BitSet(mode.flags, Loopback) THEN "Loopback" ELSE "Normal"
        m2 == IF BitSet(mode.flags, ListenOnly) THEN "ListenOnly" ELSE m1
    IN IF mode.mode = 0 THEN "Sleep" ELSE m2

NoCall == [call |-> "none", arg |-> "none"]

\* the match on the event: the transceiver call it makes, or a panic before one
EventCall(ev) ==
    CASE ev.kind = "BitTiming" ->
            LET r == bit_rate(ev.payload, fclk_can)
            IN IF r = Panic THEN Panic
               ELSE [call |-> "set_bitrate", arg |-> can_speed_from_bit_rate(r.val)]
      [] ev.kind = "ChannelMode" -> [call |-> "set_mode", arg |-> mcp_mode(ev.payload)]
      [] OTHER -> NoCall

\* assert_eq!(.., Ok(())) around the call
EventPanics(call, answer) ==
    \/ call = Panic
    \/ (call /= Panic /\ call.call /= "none" /\ answer /= "Ok")

----------------------------------------------------------------------------
(* The ring buffers (ConstGenericRingBuffer<HostFrame, 8>) *)

\* capacity of inbox and of outbox
CAP == 8

\* push: when full, the oldest entry is overwritten
push(q, x) == IF Len(q) = CAP THEN Append(Tail(q), x) ELSE Append(q, x)

\* peek
peek(q) == IF q = <<>> THEN None ELSE Some(Head(q))

\* skip / dequeue: drop the front entry
skip(q) == IF q = <<>> THEN q ELSE Tail(q)

----------------------------------------------------------------------------
(* The bridge loop of main (main.rs 105-176) *)

\* BitTiming with a zero prescaler
ZeroBrpPayload == LE32(3) \o LE32(3) \o LE32(2) \o LE32(1) \o LE32(0)

\* control-OUT transfers the host issues while the loop runs
LoopRequests ==
    {Request("Vendor", "Interface", comm_if, 1, 0, TimingPayload),
     Request("Vendor", "Interface", comm_if, 1, 0, ZeroBrpPayload),
     Request("Vendor", "Interface", comm_if, 2, 0, ModePayload)}

AnyId == [kind |-> "Standard", raw |-> 291]

\* frames the transceiver may deliver
McpFrames ==
    {CanFrame(AnyId, FALSE, 2, <<170, 187>>),
     CanFrame([kind |-> "Extended", raw |-> 305419896], TRUE, 0, <<>>)}

\* answers of the transceiver to set_bitrate / set_mode
McpAnswers == {"Ok", "Err"}

\* how many error frames may wait in inbox when the transceiver fails another submission
MaxPendingErrors == 1

\* number of entries of q that carry the overflow flag
Flagged(q) == Cardinality({i \in 1..Len(q) : BitSet(q[i].flags, Overflow)})

\* answers of the transceiver to send_message
SendAnswers(inq) ==
    {"Ok", "TxBusy", "NewModeTimeout"}
    \cup (IF Flagged(inq) < MaxPendingErrors THEN {"Failed"} ELSE {})

\* what the host streams, over and over: a translatable frame, an untranslatable
\* one, or one whose declared length exceeds the payload
HostStreams == {<<FrameA>>, <<FrameB>>, <<FrameD>>}

\* the packet the host has ready: the next packet-sized piece of its current frame
HostPacket ==
    LET idx == index(read_state)
    IN RxPacket(Chunk(host_stream[host_next], idx, Min(max_packet_size, frame_size - idx)))

LoopRx == {RxWouldBlock, RxError, HostPacket}

HostAdvance(rs) ==
    IF rs = Full /\ read_state /= Full THEN (host_next % Len(host_stream)) + 1 ELSE host_next

\* usb_dev.poll(&mut [&mut gs_port]) (main.rs 106): nothing pending, a bus reset,
\* bulk endpoint traffic, or a control-OUT transfer while the bulk endpoints are busy
UsbPoll ==
    /\ pc = "poll"
    /\ \/ /\ pc' = "receive"
          /\ last' = Obs("usb_poll", "None", FALSE)
          /\ UNCHANGED <<portVars, classVars, host_next>>
       \/ /\ ResetPort
          /\ pc' = "receive"
          /\ last' = Obs("usb_poll", "Reset", FALSE)
          /\ UNCHANGED <<classVars, host_next>>
       \/ /\ \E rx \in LoopRx, tx \in TxInputs(write_state) :
                \E p \in {PollStep(rx, tx)} :
                    /\ PollPort(p)
                    /\ host_next' = HostAdvance(p.r.state)
          /\ pc' = "event"
          /\ last' = Obs("usb_poll", "Data", TRUE)
          /\ UNCHANGED classVars
       \/ /\ \E req \in LoopRequests :
                \E c \in {control_out(control_event, req)} :
                    /\ control_event' = c.slot
                    /\ mailbox_hist' = Remember(mailbox_hist, c.decoded)
          /\ \E p \in {PollStep(RxWouldBlock, "WouldBlock")} : PollPort(p)
          /\ pc' = "event"
          /\ last' = Obs("usb_poll", "Control", TRUE)
          /\ UNCHANGED host_next
    /\ UNCHANGED <<ghostVars, inbox, outbox, host_stream>>

\* main.rs 107-139
ApplyEvent ==
    /\ pc = "event"
    /\ LET r == read_control_event(control_event)
       IN /\ control_event' = r.slot
          /\ mailbox_hist' = <<>>
          /\ IF r.ret = None
             THEN /\ pc' = "read_frame"
                  /\ last' = Obs("event", None, NoCall)
             ELSE \E answer \in McpAnswers :
                    LET call == EventCall(r.ret.val)
                    IN /\ pc' = IF EventPanics(call, answer) THEN "panicked" ELSE "read_frame"
                       /\ last' = Obs("event", r.ret.val, call)
    /\ UNCHANGED <<portVars, ghostVars, inbox, outbox, host_stream, host_next>>

\* main.rs 141-143
TakeFrame ==
    /\ pc = "read_frame"
    /\ LET r == read_frame(read_state, read_buffer)
       IN /\ ReadFramePort
          /\ outbox' = IF r.ret.tag = "Ok" THEN push(outbox, r.ret.val) ELSE outbox
          /\ last' = Obs("read_frame", None, r.ret)
    /\ pc' = "write_frame"
    /\ UNCHANGED <<ghostVars, classVars, inbox, host_stream, host_next>>

\* mutant of InboxAfter: a blocked hand-off drops the entry
InboxAfter_DropBlocked(q, ret) == skip(q)

\* the match on write_frame's result (main.rs 146-150)
InboxAfter(q, ret) ==
    IF ret.tag = "Ok" THEN skip(q)
    ELSE IF IsWouldBlock(ret) THEN q
    ELSE skip(q)

\* what gs_port.write_frame may answer, for a port whose serialization of the frame
\* can fail with one of errors (gs_port.rs 61); none for the port as specified
WriteFrameResults(ws, buf, f, errors) ==
    {write_frame(ws, buf, f)}
    \cup (IF ws = Ready
          THEN {[ret |-> Err(e), state |-> ws, buffer |-> buf] : e \in errors}
          ELSE {})

\* main.rs 145-151, over such a port
HandOffVia(errors) ==
    /\ pc = "write_frame"
    /\ IF peek(inbox) = None
       THEN /\ UNCHANGED <<portVars, inbox>>
            /\ last' = Obs("write_frame", None, None)
       ELSE \E r \in WriteFrameResults(write_state, write_buffer, peek(inbox).val, errors) :
               /\ write_state' = r.state
               /\ write_buffer' = r.buffer
               /\ UNCHANGED <<max_packet_size, read_buffer, read_state, stalled>>
               /\ inbox' = InboxAfter(inbox, r.ret)
               /\ last' = Obs("write_frame", peek(inbox).val, r.ret)
    /\ pc' = "receive"
    /\ UNCHANGED <<ghostVars, classVars, outbox, host_stream, host_next>>

\* main.rs 145-151
HandOff == HandOffVia({})

\* the channel index main passes to to_host_frame (main.rs 155)
rx_channel == 1

\* main.rs 154-156, for a transceiver that may deliver any of frames
ReceiveFrom(frames) ==
    /\ pc = "receive"
    /\ \E msg \in {None} \cup {Some(m) : m \in frames} :
          IF msg = None
          THEN /\ pc' = "submit"
               /\ inbox' = inbox
               /\ last' = Obs("receive", None, None)
          ELSE LET h == to_host_frame(msg.val, rx_channel)
               IN /\ pc' = IF h = Panic THEN "panicked" ELSE "submit"
                  /\ inbox' = IF h = Panic THEN inbox ELSE push(inbox, h.val)
                  /\ last' = Obs("receive", msg.val, h)
    /\ UNCHANGED <<portVars, ghostVars, classVars, outbox, host_stream, host_next>>

\* main.rs 154-156
Receive == ReceiveFrom(McpFrames)

\* the Err(_) arm of the match on send_message (main.rs 166-170)
ErrFrame(f) == [f EXCEPT !.flags = set(f.flags, Overflow)]
\* mutant of AfterSend: a busy transceiver makes the loop drop the entry
AfterSend_DropBusy(inq, outq, answer) ==
    CASE answer = "Ok" -> [inbox |-> push(inq, Head(outq)), outbox |-> skip(outq)]
      [] answer = "TxBusy" -> [inbox |-> inq, outbox |-> skip(outq)]
      [] answer = "NewModeTimeout" -> [inbox |-> inq, outbox |-> outq]
      [] OTHER -> [inbox |-> push(inq, ErrFrame(Head(outq))), outbox |-> skip(outq)]

\* the match on send_message's result (main.rs 160-171): inbox and outbox after it
AfterSend(inq, outq, answer) ==
    CASE answer = "Ok" -> [inbox |-> push(inq, Head(outq)), outbox |-> skip(outq)]
      [] answer = "TxBusy" -> [inbox |-> inq, outbox |-> outq]
      [] answer = "NewModeTimeout" -> [inbox |-> inq, outbox |-> outq]
      [] OTHER -> [inbox |-> push(inq, ErrFrame(Head(outq))), outbox |-> skip(outq)]

\* main.rs 158-175
Submit ==
    /\ pc = "submit"
    /\ IF peek(outbox) = None
       THEN /\ pc' = "poll"
            /\ UNCHANGED <<inbox, outbox>>
            /\ last' = Obs("submit", None, "empty")
       ELSE LET m == from_host_frame(peek(outbox).val)
            IN IF m = Panic
               THEN /\ pc' = "panicked"
                    /\ UNCHANGED <<inbox, outbox>>
                    /\ last' = Obs("submit", peek(outbox), "panic")
               ELSE IF m = None
               THEN /\ pc' = "poll"
                    /\ outbox' = skip(outbox)
                    /\ inbox' = inbox
                    /\ last' = Obs("submit", peek(outbox), "untranslatable")
               ELSE \E answer \in SendAnswers(inbox) :
                    \E a \in {AfterSend(inbox, outbox, answer)} :
                        /\ pc' = "poll"
                        /\ inbox' = a.inbox
                        /\ outbox' = a.outbox
                        /\ last' = Obs("submit", peek(outbox), answer)
    /\ UNCHANGED <<portVars, ghostVars, classVars, host_stream, host_next>>

InitBridge ==
    /\ max_packet_size = 64
    /\ InitPort
    /\ InitClass
    /\ inbox = <<>>
    /\ outbox = <<>>
    /\ pc = "poll"
    /\ host_stream \in HostStreams
    /\ host_next = 1
    /\ last = Obs("new", None, None)

NextBridge == UsbPoll \/ ApplyEvent \/ TakeFrame \/ HandOff \/ Receive \/ Submit

BridgeSpec == InitBridge /\ [][NextBridge]_vars

----------------------------------------------------------------------------
(* Control events reaching the transceiver: a control-OUT transfer, then the
   loop's event step (gs_class.rs 103-158, main.rs 106-139) *)

\* ChannelMode payloads: the mode word and every combination of the low three flags
ModeInputs == {LE32(m) \o LE32(fl) : m \in 0..2, fl \in 0..7}

\* BitTiming fields <<prop_seg, phase_seg1, phase_seg2, sjw, brp>> whose nominal rates
\* at 8 MHz fall on, just above and between the bounds of the table
TimingFields ==
    {<<8, 8, 8, 1, 64>>, <<8, 8, 7, 1, 64>>, <<3, 2, 2, 1, 100>>, <<3, 2, 2, 1, 50>>,
     <<3, 2, 2, 1, 32>>, <<3, 2, 2, 1, 30>>, <<3, 2, 2, 1, 25>>, <<3, 2, 2, 1, 20>>,
     <<4, 3, 2, 1, 10>>, <<3, 2, 2, 1, 10>>, <<3, 2, 2, 1, 8>>, <<3, 3, 2, 1, 8>>,
     <<3, 3, 2, 1, 7>>, <<3, 2, 2, 1, 5>>, <<3, 2, 2, 1, 4>>, <<3, 2, 2, 1, 2>>,
     <<3, 3, 2, 1, 1>>, <<3, 2, 2, 1, 1>>, <<0, 0, 0, 1, 1>>, <<3, 3, 2, 1, 0>>}

TimingInputs ==
    {LE32(t[1]) \o LE32(t[2]) \o LE32(t[3]) \o LE32(t[4]) \o LE32(t[5]) : t \in TimingFields}

\* BitTiming and Mode transfers for channel 0
EventRequests ==
    {Request("Vendor", "Interface", comm_if, 1, 0, d) : d \in TimingInputs}
    \cup {Request("Vendor", "Interface", comm_if, 2, 0, d) : d \in ModeInputs}

\* usb_dev.poll handling one of these transfers (main.rs 106)
HostControl ==
    /\ pc = "poll"
    /\ \E req \in EventRequests :
          \E c \in {control_out(control_event, req)} :
              /\ control_event' = c.slot
              /\ mailbox_hist' = Remember(mailbox_hist, c.decoded)
    /\ \E p \in {PollStep(RxWouldBlock, "WouldBlock")} : PollPort(p)
    /\ pc' = "event"
    /\ last' = Obs("usb_poll", "Control", TRUE)
    /\ UNCHANGED <<ghostVars, inbox, outbox, host_stream, host_next>>

NextEvent == HostControl \/ ApplyEvent

EventSpec == InitBridge /\ [][NextEvent]_vars

----------------------------------------------------------------------------
(* Reception from the transceiver: classic CAN frames of every kind and length
   (main.rs 106, 154-156; frame_ext.rs 13-34) *)

\* identifiers at the ends of the 11-bit and 29-bit ranges and in between
ClassicIds ==
    {[kind |-> "Standard", raw |-> r] : r \in {0, 291, 2047}}
    \cup {[kind |-> "Extended", raw |-> r] : r \in {0, 305419896, 536870911}}

\* the data bytes of a frame of length n
DataBytes(n) == [i \in 1..n |-> 160 + i]

\* data and remote frames of length 0..8
ClassicFrames ==
    {CanFrame(i, FALSE, n, DataBytes(n)) : i \in ClassicIds, n \in 0..8}
    \cup {CanFrame(i, TRUE, n, Zeros(n)) : i \in ClassicIds, n \in 0..8}

\* usb_dev.poll with nothing pending (main.rs 106)
IdlePoll ==
    /\ pc = "poll"
    /\ pc' = "receive"
    /\ last' = Obs("usb_poll", "None", FALSE)
    /\ UNCHANGED <<portVars, ghostVars, classVars, inbox, outbox, host_stream, host_next>>

ReceiveClassic == ReceiveFrom(ClassicFrames)

NextReceive == IdlePoll \/ ReceiveClassic

ReceiveSpec == InitBridge /\ [][NextReceive]_vars

----------------------------------------------------------------------------
(* Submission of wire frames of every shape: the loop at its submission step with
   one frame, just read from the host, in outbox (main.rs 141-143, 158-175) *)

\* packed identifiers: standard 0x123, 0x7FF, 0x800 and 0x1FFFF, extended 0x12345678
WireIds ==
    {U32(35, 1, 0, 0), U32(255, 7, 0, 0), U32(0, 8, 0, 0), U32(255, 255, 1, 0),
     U32(120, 86, 52, 146)}

\* the same identifiers with the remote bit
RemoteIds == {<<i[1], i[2], i[3], i[4] + RemoteFrame>> : i \in WireIds}

\* declared lengths: classic ones, the first past 8, the payload size and one past it
WireDlcs == {0, 2, 8, 9, 64, 65}

WireFrames ==
    {HostFrame(U32(5, 0, 0, 0), i, n, 0, 0, Payload(<<1, 2, 3, 4, 5, 6, 7, 8, 9>>)) :
        i \in WireIds \cup RemoteIds, n \in WireDlcs}

\* the pass that read f from the host has reached its submission step
InitSubmit ==
    /\ max_packet_size = 64
    /\ \E f \in WireFrames :
          /\ read_buffer = pack_to_slice(f)
          /\ outbox = <<f>>
          /\ host_stream = <<f>>
    /\ read_state = Empty
    /\ write_buffer = Zeros(frame_size)
    /\ write_state = Ready
    /\ stalled = FALSE
    /\ tx_log = <<>>
    /\ tx_clean = FALSE
    /\ rx_pkts = <<>>
    /\ InitClass
    /\ inbox = <<>>
    /\ pc = "submit"
    /\ host_next = 1
    /\ last = Obs("receive", None, None)

NextSubmit == Submit

SubmitSpec == InitSubmit /\ [][NextSubmit]_vars

----------------------------------------------------------------------------
(* The bridge loop over a port whose write_frame may fail to serialize *)

HandOffFailing == HandOffVia({"ParseError"})

NextHandOff == UsbPoll \/ ApplyEvent \/ TakeFrame \/ HandOffFailing \/ Receive \/ Submit

HandOffSpec == InitBridge /\ [][NextHandOff]_vars

----------------------------------------------------------------------------
(* Claims about the bulk port *)

RECURSIVE Flatten(_)
\* the bytes of a sequence of packets, in order
Flatten(pkts) == IF pkts = <<>> THEN <<>> ELSE Head(pkts) \o Flatten(Tail(pkts))

RECURSIVE Slices(_, _)
\* b cut into consecutive slices of n bytes, the last one possibly shorter
Slices(b, n) ==
    IF Len(b) = 0 THEN <<>>
    ELSE IF Len(b) <= n THEN <<b>>
    ELSE <<SubSeq(b, 1, n)>> \o Slices(SubSeq(b, n + 1, Len(b)), n)

CeilDiv(a, b) == (a + b - 1) \div b

\* the packets of a complete transfer of b: its slices, then a zero-length packet
\* exactly when Len(b) is a multiple of n
ExpectedPackets(b, n) ==
    Slices(b, n) \o (IF Len(b) % n = 0 THEN << <<>> >> ELSE <<>>)

\* C1: flow-control signalling follows write readiness: a step that takes the write
\* state from Ready to Writing leaves the IN endpoint unstalled, a step that takes it
\* from Writing to Ready leaves it stalled, and at the end of every poll the endpoint
\* is stalled if and only if the write state is Ready.
C1_StallFollowsReadiness ==
    [][ /\ (write_state = Ready /\ write_state' /= Ready) => (stalled' = FALSE)
        /\ (write_state /= Ready /\ write_state' = Ready) => (stalled' = TRUE)
        /\ (last'.op = "poll") => (stalled' <=> (write_state' = Ready)) ]_vars

\* C2: when every endpoint write succeeds in full, an accepted frame is emitted as
\* ceil(frame_size / max_packet_size) consecutive in-order slices of the write buffer,
\* followed by exactly one zero-length packet iff frame_size is a multiple of
\* max_packet_size; the write state is Ready exactly when all of them are out.
C2_WritePacketization ==
    tx_clean =>
        /\ Len(Slices(write_buffer, max_packet_size)) = CeilDiv(frame_size, max_packet_size)
        /\ write_state = Ready =>
              tx_log = ExpectedPackets(write_buffer, max_packet_size)
        /\ write_state.tag = "Writing" =>
              /\ tx_log = Slices(SubSeq(write_buffer, 1, frame_size - write_state.remainder),
                                 max_packet_size)
              /\ Len(tx_log) < Len(ExpectedPackets(write_buffer, max_packet_size))

\* C2 witness: a clean transfer that ended with the zero-length packet
C2_Witness ==
    /\ tx_clean /\ write_state = Ready
    /\ Len(tx_log) = 3 /\ tx_log[3] = <<>> /\ Len(tx_log[2]) = max_packet_size

\* C3: each packet read lands at the current offset; full-size packets lead to
\* WaitingForPacket(offset + size) and the first shorter packet makes the state Full,
\* however few bytes have arrived; packets that sum to frame_size leave the read
\* buffer equal to their concatenation, and read_frame then yields those bytes.
C3_ReadReassembly ==
    /\ read_state.tag = "WaitingForPacket" =>
          /\ \A i \in 1..Len(rx_pkts) : Len(rx_pkts[i]) = max_packet_size
          /\ rx_pkts /= <<>>
          /\ read_state.index = Len(Flatten(rx_pkts))
    /\ read_state = Full =>
          /\ rx_pkts /= <<>>
          /\ \A i \in 1..Len(rx_pkts) :
                IF i < Len(rx_pkts) THEN Len(rx_pkts[i]) = max_packet_size
                ELSE Len(rx_pkts[i]) < max_packet_size
    /\ read_state /= Empty =>
          SubSeq(read_buffer, 1, Len(Flatten(rx_pkts))) = Flatten(rx_pkts)
    /\ (last.op = "read_frame" /\ last.ret.tag = "Ok"
            /\ Len(Flatten(rx_pkts)) = frame_size) =>
          /\ read_buffer = Flatten(rx_pkts)
          /\ pack_to_slice(last.ret.val) = Flatten(rx_pkts)

\* C3 witness: a frame reassembled from a full-size and a short packet was read
C3_Witness ==
    /\ last.op = "read_frame" /\ last.ret.tag = "Ok"
    /\ Len(rx_pkts) = 2 /\ Len(Flatten(rx_pkts)) = frame_size
    /\ last.ret.val = FrameB

\* C4: while the read state is Full no poll reads a packet or changes the read buffer
\* or state; only read_frame leaves Full, returning the buffered frame and leaving
\* Empty; read_frame in any other state reports would-block and changes nothing.
C4_FullUntilDrained ==
    [][ /\ (read_state = Full) =>
              \/ /\ read_state' = Full
                 /\ read_buffer' = read_buffer
                 /\ ~(last'.op = "poll" /\ last'.read_called)
                 /\ last'.op /= "read_frame"
              \/ /\ last'.op = "read_frame"
                 /\ last'.ret = Ok(unpack(read_buffer))
                 /\ read_state' = Empty
        /\ (last'.op = "read_frame" /\ read_state /= Full) =>
              /\ last'.ret = WouldBlock
              /\ read_state' = read_state
              /\ read_buffer' = read_buffer ]_vars

\* C4 witness: a poll was offered a packet while a complete frame was buffered
C4_Witness ==
    /\ read_state = Full
    /\ last.op = "poll" /\ last.arg = "Packet" /\ ~last.read_called
----------------------------------------------------------------------------
(* Claims about the control interface *)

\* the four commands that carry a payload, and the size of each one's fixed layout
LayoutSize(code) ==
    CASE code = 1 -> 20
      [] code = 10 -> 20
      [] code = 2 -> 8
      [] code = 7 -> 4
      [] OTHER -> -1

EventKind(code) ==
    CASE code = 1 -> "BitTiming"
      [] code = 10 -> "DataBitTiming"
      [] code = 2 -> "ChannelMode"
      [] code = 7 -> "Identify"
      [] OTHER -> "none"

C6_ControlOutValidation ==
    /\ (last.op = "control_out" /\ Addressed(last.arg) /\ last.arg.request /= 0) =>
          LET req == last.arg
              valid == /\ LayoutSize(req.request) > 0
                       /\ req.value < C
                       /\ Len(req.data) >= LayoutSize(req.request)
          IN /\ (last.ret = "accept") <=> valid
             /\ valid =>
                   /\ control_event /= None
                   /\ control_event.val.kind = EventKind(req.request)
                   /\ control_event.val.channel = req.value
             /\ ~valid => (last.ret = "reject" /\ control_event = None)
    /\ (last.op = "read_control_event" /\ last.ret /= None) => last.ret.val.channel < C

\* C6 witness: a well-formed BitTiming for channel index C was rejected
C6_Witness ==
    /\ last.op = "control_out" /\ Addressed(last.arg)
    /\ last.arg.request = 1 /\ last.arg.value = C /\ last.arg.data = TimingPayload
    /\ last.ret = "reject"

\* C7: read_control_event returns the pending event (none if none is pending) and
\* leaves the slot empty, and the slot is only ever filled by an accepted control-OUT,
\* so an event is returned by at most one read.
C7_TakeAndClear ==
    [][ /\ (last'.op = "read_control_event") =>
              (last'.ret = control_event /\ control_event' = None)
        /\ (control_event' /= None /\ control_event' /= control_event) =>
              (last'.op = "control_out" /\ last'.ret = "accept") ]_vars

\* C7 witness: a read returned an event and left the slot empty
C7_Witness ==
    /\ last.op = "read_control_event" /\ last.ret /= None
    /\ control_event = None

----------------------------------------------------------------------------
(* Claims about the bridge loop *)

\* C8: no steady-state error aborts the bridge loop: whatever control transfers, bulk
\* packets, wire frames and transceiver outcomes arrive after startup, every pass
\* runs to completion and no halted or panicked state is reachable.
C8_LoopNeverAborts == pc /= "panicked"

\* q2 is q with exactly one entry added at the back and nothing removed
Enqueued(q, q2) == Len(q2) = Len(q) + 1 /\ SubSeq(q2, 1, Len(q)) = q

\* C9: queue entries are consumed exactly once: an entry leaves inbox only from the
\* front and only in the hand-off step that presented it to write_frame, an entry
\* leaves outbox only from the front and only in the submission step that peeked it,
\* and a step that enqueues adds one entry at the back and removes none.
C9_ConsumedExactlyOnce ==
    [][ /\ IF last'.op = "write_frame" /\ inbox /= <<>> /\ ~IsWouldBlock(last'.ret)
           THEN last'.arg = Head(inbox) /\ inbox' = Tail(inbox)
           ELSE IF last'.op = "submit" /\ last'.ret \in {"Ok", "Failed"}
           THEN Enqueued(inbox, inbox')
           ELSE IF last'.op = "receive" /\ last'.arg /= None /\ last'.ret /= Panic
           THEN Enqueued(inbox, inbox')
           ELSE inbox' = inbox
        /\ IF last'.op = "submit" /\ last'.ret \in {"Ok", "Failed", "untranslatable"}
           THEN last'.arg = Some(Head(outbox)) /\ outbox' = Tail(outbox)
           ELSE IF last'.op = "read_frame" /\ last'.ret.tag = "Ok"
           THEN Enqueued(outbox, outbox') /\ outbox'[Len(outbox')] = last'.ret.val
           ELSE outbox' = outbox ]_vars

\* C10: when send_message rejects the outbox head with an error other than TxBusy or
\* NewModeTimeout, that entry is removed from outbox in the same pass and is the entry
\* at the back of inbox, with flags bit 0 set and the other flag bits, the echo marker,
\* the identifier, the dlc, the channel and the payload unchanged.
C10_FailureReported ==
    [][ (last'.op = "submit" /\ last'.ret = "Failed") =>
            /\ outbox /= <<>>
            /\ last'.arg = Some(Head(outbox))
            /\ outbox' = Tail(outbox)
            /\ inbox' /= <<>>
            /\ Len(inbox) < CAP => Enqueued(inbox, inbox')
            /\ LET h == Head(outbox)
                   e == inbox'[Len(inbox')]
               IN /\ BitSet(e.flags, Overflow)
                  /\ e.flags \div 2 = h.flags \div 2
                  /\ e.echo_id = h.echo_id
                  /\ e.can_id = h.can_id
                  /\ e.can_dlc = h.can_dlc
                  /\ e.channel = h.channel
                  /\ e.bytes = h.bytes ]_vars

\* C10 witness: a submission of FrameA failed and the frame sits at the back of inbox
\* with the overflow flag added to its Fd flag
C10_Witness ==
    /\ last.op = "submit" /\ last.ret = "Failed" /\ last.arg = Some(FrameA)
    /\ inbox /= <<>>
    /\ inbox[Len(inbox)] = [FrameA EXCEPT !.flags = 3]

C12_TransmitEcho ==
    [][ /\ (last'.op = "submit" /\ last'.ret = "Ok") =>
              /\ outbox /= <<>>
              /\ last'.arg = Some(Head(outbox))
              /\ outbox' = Tail(outbox)
              /\ inbox' /= <<>>
              /\ inbox'[Len(inbox')] = Head(outbox)
              /\ Len(inbox) < CAP => Enqueued(inbox, inbox')
        /\ (last'.op = "receive" /\ last'.arg /= None) =>
              /\ pc' = "submit"
              /\ inbox' /= <<>>
              /\ inbox'[Len(inbox')].echo_id = U32Max
              /\ Len(inbox) < CAP => Enqueued(inbox, inbox') ]_vars

----------------------------------------------------------------------------
(* Claims about the event step *)

\* the operating mode by fixed priority: Sleep, then Loopback, then Listen-Only
ModeByPriority(m) ==
    IF m.mode = 0 THEN "Sleep"
    ELSE IF BitSet(m.flags, Loopback) THEN "Loopback"
    ELSE IF BitSet(m.flags, ListenOnly) THEN "ListenOnly"
    ELSE "Normal"

\* C13: for every ChannelMode event the mode requested of the transceiver is Sleep if
\* the mode field is 0, otherwise Loopback if the loopback flag is set (whether or not
\* listen-only is set too), otherwise Listen-Only if that flag is set, otherwise Normal.
C13_ModePriority ==
    (last.op = "event" /\ last.arg /= None /\ last.arg.kind = "ChannelMode") =>
        last.ret = [call |-> "set_mode", arg |-> ModeByPriority(last.arg.payload)]

\* the nominal rate in bit/s
NominalRate(t, f) ==
    (f \div t.brp) \div (1 + t.prop_seg + t.phase_seg1 + t.phase_seg2)

\* the first bucket of the table whose bound, in bit/s, is at least the rate
Bucket(rate) ==
    CASE rate <= 5000 -> "Kbps5"
      [] rate <= 10000 -> "Kbps10"
      [] rate <= 20000 -> "Kbps20"
      [] rate <= 31250 -> "Kbps31_25"
      [] rate <= 33300 -> "Kbps33_3"
      [] rate <= 40000 -> "Kbps40"
      [] rate <= 50000 -> "Kbps50"
      [] rate <= 80000 -> "Kbps80"
      [] rate <= 100000 -> "Kbps100"
      [] rate <= 125000 -> "Kbps125"
      [] rate <= 200000 -> "Kbps200"
      [] rate <= 250000 -> "Kbps250"
      [] rate <= 500000 -> "Kbps500"
      [] OTHER -> "Kbps1000"

\* C14: a BitTiming event on a channel with clock f configures the transceiver to the
\* first bucket (5, 10, 20, 31.25, 33.3, 40, 50, 80, 100, 125, 200, 250, 500 kbit/s,
\* else 1000) whose bound is at least (f / brp) / (1 + prop_seg + phase_seg1 +
\* phase_seg2) bit/s; BitTiming{3,3,2,1,brp 8} at 8 MHz gives the 125 kbit/s bucket.
C14_BitRateQuantization ==
    (/\ last.op = "event" /\ last.arg /= None
     /\ last.arg.kind = "BitTiming" /\ last.arg.payload.brp /= 0) =>
        last.ret = [call |-> "set_bitrate",
                    arg |-> Bucket(NominalRate(last.arg.payload, fclk_can))]

----------------------------------------------------------------------------
(* Claims about translation *)

\* C15: for every classic CAN frame F (standard or extended identifier, data or remote,
\* length 0..8) to_host_frame(F) completes and yields a frame with the echo marker
\* u32::MAX, the declared length and the payload zero-padded to 64 bytes, and
\* from_host_frame of it returns a frame with F's identifier, identifier kind,
\* remote/data kind and payload bytes up to the declared length.
C15_RoundTrip ==
    (last.op = "receive" /\ last.arg /= None) =>
        LET F == last.arg
            h == last.ret
        IN /\ h /= Panic
           /\ h.val.echo_id = U32Max
           /\ h.val.can_dlc = F.dlc
           /\ h.val.bytes = Payload(F.data)
           /\ from_host_frame(h.val) = Some(F)

\* a wire frame whose declared length exceeds 8, or whose identifier exceeds 11 bits
\* while its extended-id bit is clear
Unrepresentable(f) ==
    \/ f.can_dlc > 8
    \/ (~is_set(f.can_id, ExtendedId) /\ id(f.can_id) > 2047)

\* C16: for an unrepresentable wire frame at the head of outbox from_host_frame returns
\* none, and the submission step removes the entry from outbox without submitting
\* anything to the transceiver and without pushing anything to inbox.
C16_UnrepresentableDropped ==
    [][ (last'.op = "submit" /\ outbox /= <<>> /\ Unrepresentable(Head(outbox))) =>
            /\ from_host_frame(Head(outbox)) = None
            /\ last'.ret = "untranslatable"
            /\ outbox' = Tail(outbox)
            /\ inbox' = inbox
            /\ pc' = "poll" ]_vars

----------------------------------------------------------------------------
(* Claims about the hand-off to the bulk port *)

C18_HandOffEveryPass ==
    [][ (pc' = "receive" /\ inbox /= <<>>) =>
            (last'.op = "write_frame" /\ last'.arg = Head(inbox)) ]_vars

----------------------------------------------------------------------------
(* Claims about write_frame and read errors *)

\* C19: write_frame admits one frame at a time: in Ready it serializes the frame into
\* the write buffer and sets Writing(frame_size); in Writing(r) it reports WouldBlock
\* and leaves the write buffer and r unchanged.  No step changes the write buffer
\* while a frame is in flight, so the bytes emitted since a frame was admitted are
\* always the leading bytes of that frame.
C19_OneFrameAtATime ==
    [][ /\ (last'.op = "write_frame") =>
              IF write_state = Ready
              THEN /\ last'.ret = Ok(<<>>)
                   /\ write_buffer' = pack_to_slice(last'.arg)
                   /\ write_state' = Writing(frame_size)
              ELSE /\ IsWouldBlock(last'.ret)
                   /\ write_buffer' = write_buffer
                   /\ write_state' = write_state
        /\ (write_state /= Ready) => (write_buffer' = write_buffer)
        /\ Flatten(tx_log') = SubSeq(write_buffer', 1, Len(Flatten(tx_log'))) ]_vars

\* C19 witness: FrameB was refused while FrameA was in flight with its first packet sent
C19_Witness ==
    /\ last.op = "write_frame" /\ last.arg = FrameB /\ IsWouldBlock(last.ret)
    /\ write_state.tag = "Writing" /\ write_state.remainder < frame_size
    /\ write_buffer = pack_to_slice(FrameA)
    /\ tx_log /= <<>>

\* C20: in Empty or WaitingForPacket(n) a packet read that fails with an error other
\* than WouldBlock (an endpoint error, or a packet larger than the room left in the
\* buffer) sets the read state to Empty, and a packet read in Empty is stored at
\* offset 0; a WouldBlock leaves the read state, its offset and the buffer unchanged.
C20_ReadErrorDiscards ==
    [][ (last'.op = "poll" /\ read_state /= Full) =>
            /\ last'.read_called
            /\ (last'.arg = "Error") => (read_state' = Empty /\ index(read_state') = 0)
            /\ (last'.arg = "Packet" /\ rx_pkts' = <<>>) => (read_state' = Empty)
            /\ (last'.arg = "WouldBlock") =>
                  (read_state' = read_state /\ read_buffer' = read_buffer)
            /\ (last'.arg = "Packet" /\ rx_pkts' /= <<>> /\ read_state = Empty) =>
                  /\ Len(rx_pkts') = 1
                  /\ SubSeq(read_buffer', 1, Len(rx_pkts'[1])) = rx_pkts'[1] ]_vars

\* C20 witness: with 64-byte packets, a read error arrived after the first packet of
\* the first frame and the port is back in Empty
C20_Witness ==
    /\ last.op = "poll" /\ last.arg = "Error" /\ last.read_called
    /\ read_state = Empty
    /\ max_packet_size = 64
    /\ SubSeq(read_buffer, 1, 64) = SubSeq(pack_to_slice(FrameA), 1, 64)
    /\ SubSeq(read_buffer, 65, frame_size) = Zeros(frame_size - 64)

----------------------------------------------------------------------------
(* Further claims about the control interface *)

\* C21: a control-OUT that is rejected, accepted as the HostFormat no-op, or ignored
\* leaves an unread pending event as it was, so the next read_control_event still
\* returns it.
C21_RejectKeepsPending ==
    [][ (/\ last'.op = "control_out"
         /\ control_event /= None
         /\ \/ last'.ret \in {"reject", "ignored"}
            \/ (Addressed(last'.arg) /\ from_raw(last'.arg.request) = Some("HostFormat"))) =>
            control_event' = control_event ]_vars

----------------------------------------------------------------------------
(* Further claims about the bridge loop *)

----------------------------------------------------------------------------
(* Further claims about the bulk port *)

\* every write in flight is eventually followed by Ready
C23_Finishes == (write_state.tag = "Writing") ~> (write_state = Ready)

\* the packet writes answered Ok since the frame was admitted, while more is to come:
\* with the one that ends the transfer, at most ceil(frame_size / max_packet_size) + 1
C23_PacketBound ==
    /\ (write_state.tag = "Writing") =>
           Len(tx_log) <= CeilDiv(frame_size, max_packet_size)
    /\ Len(tx_log) <= CeilDiv(frame_size, max_packet_size) + 1

\* a would-block answer to the write leaves the write state as it was
C23_WouldBlockRetries ==
    [][ (last'.op = "poll" /\ write_state.tag = "Writing" /\ IsWouldBlock(last'.ret)) =>
            write_state' = write_state ]_vars

C24_OffsetsInRange ==
    /\ Len(read_buffer) = frame_size
    /\ Len(write_buffer) = frame_size
    /\ index(read_state) <= frame_size
    /\ (read_state.tag = "WaitingForPacket") =>
           /\ 0 < read_state.index
           /\ read_state.index <= frame_size
           /\ read_state.index % max_packet_size = 0
    /\ (write_state.tag = "Writing") =>
           LET r == write_state.remainder
               from_index == frame_size - r
               to_index == Min(frame_size, from_index + max_packet_size)
           IN /\ 0 <= r
              /\ r <= frame_size
              /\ from_index % max_packet_size = 0
              /\ 0 <= from_index
              /\ from_index <= to_index
              /\ to_index <= frame_size
              /\ \A tx \in TxOutcomes :
                    LET res == write_packet(
                                   WriteSlice(write_buffer, r, max_packet_size), tx)
                    IN (r > 0 /\ res.tag = "Ok" /\ res.val = max_packet_size) =>
                           r - res.val >= 0

\* a poll has left a partial frame on the read side and a partly sent one on the
\* write side
C24_Witness ==
    /\ last.op = "poll"
    /\ read_state.tag = "WaitingForPacket"
    /\ write_state.tag = "Writing"
    /\ write_state.remainder < frame_size

====
